---- MODULE Spec2Model ----
(***************************************************************************)
(* The auction server of SPL-AUCTIONSYSTEM-BACKEND as a state machine.     *)
(*                                                                         *)
(* Two builds of the multi-room server are modelled side by side:          *)
(*   "server.js" : src/server.js                                           *)
(*   "part_000"  : src/unnamed/part_000, lines 1-293                       *)
(* The variable impl says which build a behaviour runs; it never changes.  *)
(*                                                                         *)
(* State: the in-memory room table (auctionRooms), the two durable         *)
(* collections the settlement writes touch (Player, Team), and the         *)
(* settlement writes that a sell_player / unsell_player handler has issued *)
(* and is still awaiting (inflight), and the REST deletions of teams,      *)
(* players and auctions (requests).  Each socket handler is one action     *)
(* for its synchronous part; every await of a handler or of a route is a   *)
(* separate step.                                                          *)
(*                                                                         *)
(* JavaScript values: null and undefined of an id field are the strings    *)
(* Null and Undefined; an amount that is not a number is UndefinedAmount.  *)
(***************************************************************************)
EXTENDS Integers, Sequences, FiniteSets, TLC

\* ---------------------------------------------------------------- bounds
\* Largest bid amount / base price an event carries.
MaxAmount == 1
\* Longest bidHistory the model lets a room grow.
MaxHistory == 2
\* Number of settlements (accepted sell_player / unsell_player) per behaviour.
MaxOps == 2
\* The same, in the runs of the REST deletions.
AdminOps == 1
\* The same, in the runs with two rooms.
RoomOps == 1
\* Number of REST deletions that find their target, per behaviour.
MaxRequests == 2
\* The same, in the runs of the bidding engine.
EngineOps == 1

\* ---------------------------------------------------------------- values
Null == "null"
Undefined == "undefined"
\* `amount` when the event carries no number (undefined): every relational
\* comparison with it is false, as with NaN.
UndefinedAmount == -1

Builds == {"server.js", "part_000"}
AuctionIds == {"A1"}
\* The auction ids of the runs with two rooms.
RoomIds == AuctionIds \cup {"A2"}
PlayerIds == {"P1", "P2"}
TeamIds == {"T1", "T2"}
Amounts == 0..MaxAmount

\* What a place_bid event may carry: a team id, null or nothing; a number or
\* nothing.
TeamInputs == TeamIds \cup {Null}
AmountInputs == Amounts \cup {UndefinedAmount}

\* The events of the settlement runs.
SettlePlayers == {"P1"}
SettleBases == {1}
SettleTeams == {"T1"}
SettleAmounts == {1, 2}

VARIABLES
    impl,          \* which build runs
    auctionRooms,  \* Map auctionId -> session
    Player,        \* durable player records, by id
    Team,          \* durable team records, by id
    inflight,      \* settlements whose writes or continuation are outstanding
    nextOp,        \* number of the next settlement
    last,          \* the handler step taken last and what it emitted
    requests,      \* the REST deletions begun so far and the await each is at
    round          \* history of the accepted bids of each room's round:
                   \* started by start_player, highest and latest accepted
                   \* amount, whether any place_bid was accepted

vars == <<impl, auctionRooms, Player, Team, inflight, nextOp, last, requests, round>>

\* ------------------------------------------------------- JavaScript bits
IsNumber(a) == a >= 0
JsLt(a, b) == IsNumber(a) /\ IsNumber(b) /\ a < b
JsLe(a, b) == IsNumber(a) /\ IsNumber(b) /\ a <= b
Truthy(id) == id \notin {Null, Undefined}

\* ------------------------------------------------------------ room table
FreshSession ==
    [currentBid |-> 0, leadingTeamId |-> Null, currentPlayerId |-> Null,
     status |-> "IDLE", bidHistory |-> <<>>]

\* The room table after getRoomState(r): r is installed if absent.
getRoomState(r) ==
    IF r \in DOMAIN auctionRooms THEN auctionRooms
    ELSE auctionRooms @@ (r :> FreshSession)

\* The session a handler of room r would get from getRoomState.
Session(r) == getRoomState(r)[r]

\* ------------------------------------------------------------ broadcasts
AuctionState(r, s, op) ==
    [type |-> "auction_state", scope |-> "room", to |-> r, state |-> s, op |-> op]
AuctionStateToSocket(r, s) ==
    [type |-> "auction_state", scope |-> "socket", to |-> r, state |-> s, op |-> 0]
\* Mutant of DataUpdate: io.emit instead of io.to(auctionId).emit.
DataUpdateToAll(r, op) ==
    [type |-> "data_update", scope |-> "all", to |-> Null, state |-> FreshSession, op |-> op]
DataUpdate(r, op) ==
    [type |-> "data_update", scope |-> "room", to |-> r, state |-> FreshSession, op |-> op]

Step(event, r, emitted, error) ==
    [event |-> event, room |-> r, emitted |-> emitted, error |-> error]

\* ------------------------------------------------- history of the rounds
NoBid == UndefinedAmount - 1
NewRound(started) ==
    [started |-> started, high |-> NoBid, prev |-> NoBid, accepted |-> FALSE]
Max(a, b) == IF a >= b THEN a ELSE b

\* --------------------------------------------------------------- start
\* Mutant of StartSession: bidHistory is not cleared.
StartSessionKeepsHistory(s, p, b) ==
    [s EXCEPT !.currentBid = b, !.leadingTeamId = Null, !.currentPlayerId = p,
              !.status = "ACTIVE"]

StartSession(s, p, b) ==
    [s EXCEPT !.currentBid = b, !.leadingTeamId = Null, !.currentPlayerId = p,
              !.status = "ACTIVE", !.bidHistory = <<>>]

StartPlayer(r, p, b) ==
    LET rooms == getRoomState(r)
        s2 == StartSession(rooms[r], p, b)
    IN /\ auctionRooms' = [rooms EXCEPT ![r] = s2]
       /\ last' = Step("start_player", r, <<AuctionState(r, s2, 0)>>, "none")
       /\ round' = [round EXCEPT ![r] = NewRound(TRUE)]
       /\ UNCHANGED <<impl, requests, Player, Team, inflight, nextOp>>

\* ------------------------------------------------------------ join
JoinAuction(r) ==
    LET rooms == getRoomState(r)
    IN /\ auctionRooms' = rooms
       /\ last' = Step("join_auction", r, <<AuctionStateToSocket(r, rooms[r])>>, "none")
       /\ UNCHANGED <<impl, requests, Player, Team, inflight, nextOp, round>>

\* ------------------------------------------------------------ place_bid
\* part_000 only: `if (!auctionId || !teamId || typeof amount !== 'number') return;`
Malformed(t, a) == ~Truthy(t) \/ ~IsNumber(a)
DropsMalformed == impl = "part_000"

\* Mutant of TooLow: a bid equal to the leader's is let through.
TooLowOnlyBelow(s, a) == JsLt(a, s.currentBid)

\* "Prevent lower bids"
TooLow(s, a) ==
    IF s.leadingTeamId = Null THEN JsLt(a, s.currentBid)
    ELSE JsLe(a, s.currentBid)

PushBid(s, t, a) ==
    [s EXCEPT !.bidHistory = Append(@, [bid |-> s.currentBid, leader |-> s.leadingTeamId]),
              !.currentBid = a,
              !.leadingTeamId = t]

PlaceBid(r, t, a) ==
    IF DropsMalformed /\ Malformed(t, a)
    THEN /\ last' = Step("place_bid", r, <<>>, "none")
         /\ UNCHANGED <<impl, requests, auctionRooms, Player, Team, inflight, nextOp, round>>
    ELSE LET rooms == getRoomState(r)
             s == rooms[r]
         IN IF TooLow(s, a)
            THEN /\ auctionRooms' = rooms
                 /\ last' = Step("place_bid", r, <<>>, "none")
                 /\ UNCHANGED <<impl, requests, Player, Team, inflight, nextOp, round>>
            ELSE LET s2 == PushBid(s, t, a)
                 IN /\ Len(s.bidHistory) < MaxHistory
                    /\ auctionRooms' = [rooms EXCEPT ![r] = s2]
                    /\ last' = Step("place_bid", r, <<AuctionState(r, s2, 0)>>, "none")
                    /\ round' = [round EXCEPT
                           ![r].high = IF IsNumber(a) THEN Max(@, a) ELSE @,
                           ![r].prev = IF Malformed(t, a) THEN NoBid ELSE a,
                           ![r].accepted = TRUE]
                    /\ UNCHANGED <<impl, requests, Player, Team, inflight, nextOp>>

\* ------------------------------------------------------------ undo_bid
\* Mutant of PopBid: the leader of the popped entry is not restored.
PopBidKeepsLeader(s) ==
    LET n == Len(s.bidHistory)
    IN [s EXCEPT !.bidHistory = SubSeq(@, 1, n - 1),
                 !.currentBid = s.bidHistory[n].bid]

\* Mutant of PopBid: the leader is cleared instead of restored.
PopBidClearsLeader(s) ==
    LET n == Len(s.bidHistory)
    IN [s EXCEPT !.bidHistory = SubSeq(@, 1, n - 1),
                 !.currentBid = s.bidHistory[n].bid,
                 !.leadingTeamId = Null]

PopBid(s) ==
    LET n == Len(s.bidHistory)
        prev == s.bidHistory[n]
    IN [s EXCEPT !.bidHistory = SubSeq(@, 1, n - 1),
                 !.currentBid = prev.bid,
                 !.leadingTeamId = prev.leader]

\* Mutant of UndoBid: the broadcast is made whether or not an entry was popped.
UndoBidAlwaysEmits(r) ==
    LET rooms == getRoomState(r)
        s == rooms[r]
        s2 == IF Len(s.bidHistory) > 0 THEN PopBid(s) ELSE s
    IN /\ auctionRooms' = [rooms EXCEPT ![r] = s2]
       /\ last' = Step("undo_bid", r, <<AuctionState(r, s2, 0)>>, "none")
       /\ round' = [round EXCEPT ![r].prev = NoBid]
       /\ UNCHANGED <<impl, requests, Player, Team, inflight, nextOp>>

UndoBid(r) ==
    LET rooms == getRoomState(r)
        s == rooms[r]
    IN IF Len(s.bidHistory) > 0
       THEN LET s2 == PopBid(s)
            IN /\ auctionRooms' = [rooms EXCEPT ![r] = s2]
               /\ last' = Step("undo_bid", r, <<AuctionState(r, s2, 0)>>, "none")
               /\ round' = [round EXCEPT ![r].prev = NoBid]
               /\ UNCHANGED <<impl, requests, Player, Team, inflight, nextOp>>
       ELSE /\ auctionRooms' = rooms
            /\ last' = Step("undo_bid", r, <<>>, "none")
            /\ UNCHANGED <<impl, requests, Player, Team, inflight, nextOp, round>>

\* ------------------------------------------------------------ toggle_pause
\* Mutant of ToggleSession: a finished round is closed instead of paused.
ToggleSessionClosesRound(s) ==
    [s EXCEPT !.status = IF s.status = "PAUSED" THEN "ACTIVE"
                         ELSE IF s.status \in {"SOLD", "UNSOLD"} THEN "IDLE"
                         ELSE "PAUSED"]

ToggleSession(s) ==
    [s EXCEPT !.status = IF s.status = "PAUSED" THEN "ACTIVE" ELSE "PAUSED"]

TogglePause(r) ==
    LET rooms == getRoomState(r)
        s2 == ToggleSession(rooms[r])
    IN /\ auctionRooms' = [rooms EXCEPT ![r] = s2]
       /\ last' = Step("toggle_pause", r, <<AuctionState(r, s2, 0)>>, "none")
       /\ UNCHANGED <<impl, requests, Player, Team, inflight, nextOp, round>>

\* ------------------------------------------------------------ reset_round
\* server.js assigns four fields and leaves bidHistory; part_000 assigns all five.
ResetSession(s) ==
    IF impl = "server.js"
    THEN [s EXCEPT !.currentBid = 0, !.leadingTeamId = Null,
                   !.currentPlayerId = Null, !.status = "IDLE"]
    ELSE [s EXCEPT !.currentBid = 0, !.leadingTeamId = Null,
                   !.currentPlayerId = Null, !.status = "IDLE", !.bidHistory = <<>>]

ResetRound(r) ==
    LET rooms == getRoomState(r)
        s2 == ResetSession(rooms[r])
    IN /\ auctionRooms' = [rooms EXCEPT ![r] = s2]
       /\ last' = Step("reset_round", r, <<AuctionState(r, s2, 0)>>, "none")
       /\ round' = [round EXCEPT ![r] = NewRound(FALSE)]
       /\ UNCHANGED <<impl, requests, Player, Team, inflight, nextOp>>

\* ------------------------------------------------------------ settlements
\* A settlement in flight: the values the handler captured when it issued the
\* writes, and the state of each write.
\* Mutant of SellOp: the price is the one the round opened at.
SellOpAtOpeningPrice(id, r, s) ==
    [id |-> id, event |-> "sell_player", room |-> r,
     playerId |-> s.currentPlayerId, teamId |-> s.leadingTeamId,
     amount |-> IF s.bidHistory = <<>> THEN s.currentBid ELSE s.bidHistory[1].bid,
     playerWrite |-> "pending", teamWrite |-> "pending"]
SellOp(id, r, s) ==
    [id |-> id, event |-> "sell_player", room |-> r,
     playerId |-> s.currentPlayerId, teamId |-> s.leadingTeamId, amount |-> s.currentBid,
     playerWrite |-> "pending", teamWrite |-> "pending"]
UnsellOp(id, r, s) ==
    [id |-> id, event |-> "unsell_player", room |-> r,
     playerId |-> s.currentPlayerId, teamId |-> Null, amount |-> 0,
     playerWrite |-> "pending", teamWrite |-> "none"]

Outstanding(ops) == {o \in ops : o.playerWrite = "pending" \/ o.teamWrite = "pending"}
Replace(o, o2) == Outstanding((inflight \ {o}) \cup {o2})

\* ------------------------------------------------------------ sell_player
\* Mutant of SellAccepted: the leader is not checked.
SellAcceptedWithoutLeader(s) == Truthy(s.currentPlayerId)
SellAccepted(s) == Truthy(s.currentPlayerId) /\ Truthy(s.leadingTeamId)
SoldSession(s) == [s EXCEPT !.status = "SOLD", !.bidHistory = <<>>]

\* The synchronous part of the handler, up to its await.
SellPlayer(r, cap) ==
    LET rooms == getRoomState(r)
        s == rooms[r]
    IN IF SellAccepted(s)
       THEN LET s2 == SoldSession(s)
            IN /\ nextOp <= cap
               /\ auctionRooms' = [rooms EXCEPT ![r] = s2]
               /\ last' = Step("sell_player", r, <<AuctionState(r, s2, nextOp)>>, "none")
               /\ inflight' = inflight \cup {SellOp(nextOp, r, s)}
               /\ nextOp' = nextOp + 1
               /\ UNCHANGED <<impl, requests, Player, Team, round>>
       ELSE /\ auctionRooms' = rooms
            /\ last' = Step("sell_player", r, <<>>, "none")
            /\ UNCHANGED <<impl, requests, Player, Team, inflight, nextOp, round>>

\* ------------------------------------------------------------ unsell_player
UnsellAccepted(s) == Truthy(s.currentPlayerId)
UnsoldSession(s) == [s EXCEPT !.status = "UNSOLD"]

UnsellPlayer(r, cap) ==
    LET rooms == getRoomState(r)
        s == rooms[r]
    IN IF UnsellAccepted(s)
       THEN LET s2 == UnsoldSession(s)
            IN /\ nextOp <= cap
               /\ auctionRooms' = [rooms EXCEPT ![r] = s2]
               /\ last' = Step("unsell_player", r, <<AuctionState(r, s2, nextOp)>>, "none")
               /\ inflight' = inflight \cup {UnsellOp(nextOp, r, s)}
               /\ nextOp' = nextOp + 1
               /\ UNCHANGED <<impl, requests, Player, Team, round>>
       ELSE /\ auctionRooms' = rooms
            /\ last' = Step("unsell_player", r, <<>>, "none")
            /\ UNCHANGED <<impl, requests, Player, Team, inflight, nextOp, round>>

\* ------------------------------------------------------------ durable writes
\* Player.findByIdAndUpdate(id, {isSold: true, soldTo, soldPrice}); a soldPrice
\* that is no number is either dropped from the update or stored as given.
SoldPriceWritten(old, amount) ==
    IF IsNumber(amount) THEN {amount} ELSE {old, UndefinedAmount}
SoldRecord(rec, teamId, price) ==
    [rec EXCEPT !.isSold = TRUE, !.soldTo = teamId, !.soldPrice = price]
\* Mutant of UnsoldRecord: isSold is left as it was.
UnsoldRecordKeepsSold(rec) == [rec EXCEPT !.isUnsold = TRUE]
\* Player.findByIdAndUpdate(id, {isSold: false, isUnsold: true})
UnsoldRecord(rec) == [rec EXCEPT !.isSold = FALSE, !.isUnsold = TRUE]
\* Team.findByIdAndUpdate(id, {$inc: {spent}, $push: {players}})
ChargedRecord(rec, playerId, amount) ==
    [rec EXCEPT !.spent = IF IsNumber(amount) THEN @ + amount ELSE @,
                !.players = Append(@, playerId)]

\* How the handler's await stands: Promise.all (sell) or the single promise
\* (unsell) resolves when every write has succeeded and rejects as soon as one
\* has failed.  The handler resumes in the same turn of the event loop in
\* which the deciding answer arrives.
\* Mutant of AllWritten: the team write is not awaited.
PlayerWritten(o) == o.playerWrite = "ok"
AllWritten(o) == o.playerWrite = "ok" /\ o.teamWrite \in {"ok", "none"}
AnyFailed(o) == o.playerWrite = "failed" \/ o.teamWrite = "failed"
\* server.js awaits the unsell write outside any try/catch.
Caught(o) == impl = "part_000" \/ o.event = "sell_player"

\* What the handler of settlement `before` does when an answer turns the
\* settlement into `after`.
Resumes(before, after) ==
    IF AnyFailed(before) THEN Step("write_answer", after.room, <<>>, "none")
    ELSE IF AllWritten(after)
         THEN Step(after.event, after.room, <<DataUpdate(after.room, after.id)>>, "none")
    ELSE IF AnyFailed(after)
         THEN Step(after.event, after.room, <<>>,
                   IF Caught(after) THEN "logged" ELSE "unhandled")
    ELSE Step("write_answer", after.room, <<>>, "none")

\* The player write of settlement o succeeds; it changes nothing when no such
\* player exists.
PlayerWriteOk(o) ==
    LET o2 == [o EXCEPT !.playerWrite = "ok"]
    IN /\ o.playerWrite = "pending"
       /\ IF o.playerId \in DOMAIN Player
          THEN IF o.event = "sell_player"
               THEN \E price \in SoldPriceWritten(Player[o.playerId].soldPrice, o.amount) :
                      Player' = [Player EXCEPT ![o.playerId] = SoldRecord(@, o.teamId, price)]
               ELSE Player' = [Player EXCEPT ![o.playerId] = UnsoldRecord(@)]
          ELSE Player' = Player
       /\ inflight' = Replace(o, o2)
       /\ last' = Resumes(o, o2)
       /\ UNCHANGED <<impl, requests, auctionRooms, Team, nextOp, round>>

PlayerWriteFails(o) ==
    LET o2 == [o EXCEPT !.playerWrite = "failed"]
    IN /\ o.playerWrite = "pending"
       /\ inflight' = Replace(o, o2)
       /\ last' = Resumes(o, o2)
       /\ UNCHANGED <<impl, requests, auctionRooms, Player, Team, nextOp, round>>

TeamWriteOk(o) ==
    LET o2 == [o EXCEPT !.teamWrite = "ok"]
    IN /\ o.teamWrite = "pending"
       /\ Team' = IF o.teamId \in DOMAIN Team
                  THEN [Team EXCEPT ![o.teamId] = ChargedRecord(@, o.playerId, o.amount)]
                  ELSE Team
       /\ inflight' = Replace(o, o2)
       /\ last' = Resumes(o, o2)
       /\ UNCHANGED <<impl, requests, auctionRooms, Player, nextOp, round>>

TeamWriteFails(o) ==
    LET o2 == [o EXCEPT !.teamWrite = "failed"]
    IN /\ o.teamWrite = "pending"
       /\ inflight' = Replace(o, o2)
       /\ last' = Resumes(o, o2)
       /\ UNCHANGED <<impl, requests, auctionRooms, Player, Team, nextOp, round>>

\* ------------------------------------------------------------ documents
\* The schema defaults of a player and of a team.
NewPlayer == [isSold |-> FALSE, isUnsold |-> FALSE, soldTo |-> Null, soldPrice |-> 0]
NewTeam == [spent |-> 0, players |-> <<>>]

\* ------------------------------------------------------------ REST deletions
\* Every team and player of the model belongs to the one auction.
AuctionOf(id) == CHOOSE a \in AuctionIds : TRUE

\* A deletion: its number, the route, the id of its target, the call it awaits
\* ("done" / "failed" once it has responded), and (delete player) the document
\* findById returned.
Request(route, id, stage, player) ==
    [n |-> Cardinality(requests) + 1, route |-> route, id |-> id, stage |-> stage,
     player |-> player]
Responded(q, stage) == (requests \ {q}) \cup {[q EXCEPT !.stage = stage, !.player = NewPlayer]}

Without(f, id) == [x \in DOMAIN f \ {id} |-> f[x]]

\* Player.updateMany({soldTo: id}, {isSold: false, soldTo: null, soldPrice: 0})
\* Mutant of ReleasedRecord: soldPrice is left as it was.
ReleasedRecordKeepsPrice(rec) == [rec EXCEPT !.isSold = FALSE, !.soldTo = Null]
ReleasedRecord(rec) == [rec EXCEPT !.isSold = FALSE, !.soldTo = Null, !.soldPrice = 0]
ReleasePlayersOf(teamId) ==
    [p \in DOMAIN Player |->
       IF Player[p].soldTo = teamId THEN ReleasedRecord(Player[p]) ELSE Player[p]]

\* Team.findByIdAndUpdate(soldTo, {$pull: {players: _id}, $inc: {spent: -soldPrice}})
\* Mutant of RefundedRecord: the player stays in the team's list.
RefundedRecordKeepsPlayer(rec, playerId, price) ==
    [rec EXCEPT !.spent = IF IsNumber(price) THEN @ - price ELSE @]
RefundedRecord(rec, playerId, price) ==
    [rec EXCEPT !.spent = IF IsNumber(price) THEN @ - price ELSE @,
                !.players = SelectSeq(@, LAMBDA x : x # playerId)]

\* app.delete('/api/teams/:id'): Team.findById has answered.
DeleteTeamFind(t) ==
    /\ Cardinality(requests) < MaxRequests
    /\ requests' = IF t \in DOMAIN Team
                   THEN requests \cup {Request("delete_team", t, "delete", NewPlayer)}
                   ELSE requests
    /\ last' = Step("delete_team", AuctionOf(t), <<>>, "none")
    /\ UNCHANGED <<impl, auctionRooms, Player, Team, inflight, nextOp, round>>

\* Team.findByIdAndDelete has answered.
DeleteTeamRemove(q) ==
    /\ q.route = "delete_team" /\ q.stage = "delete"
    /\ Team' = Without(Team, q.id)
    /\ requests' = (requests \ {q}) \cup {[q EXCEPT !.stage = "updateMany"]}
    /\ last' = Step("delete_team", AuctionOf(q.id), <<>>, "none")
    /\ UNCHANGED <<impl, auctionRooms, Player, inflight, nextOp, round>>

\* Player.updateMany has answered; the route emits data_update and responds.
DeleteTeamRelease(q) ==
    /\ q.route = "delete_team" /\ q.stage = "updateMany"
    /\ Player' = ReleasePlayersOf(q.id)
    /\ requests' = Responded(q, "done")
    /\ last' = Step("delete_team", AuctionOf(q.id), <<DataUpdate(AuctionOf(q.id), 0)>>, "none")
    /\ UNCHANGED <<impl, auctionRooms, Team, inflight, nextOp, round>>

\* if (player.isSold && player.soldTo)
OwesRefund(rec) == rec.isSold /\ Truthy(rec.soldTo)

\* app.delete('/api/players/:id'): Player.findById has answered.
DeletePlayerFind(p) ==
    /\ Cardinality(requests) < MaxRequests
    /\ requests' = IF p \in DOMAIN Player
                   THEN requests \cup
                        {Request("delete_player", p,
                                 IF OwesRefund(Player[p]) THEN "refund" ELSE "delete",
                                 Player[p])}
                   ELSE requests
    /\ last' = Step("delete_player", AuctionOf(p), <<>>, "none")
    /\ UNCHANGED <<impl, auctionRooms, Player, Team, inflight, nextOp, round>>

\* Team.findByIdAndUpdate has answered; it changes nothing when the team is gone.
DeletePlayerRefund(q) ==
    /\ q.route = "delete_player" /\ q.stage = "refund"
    /\ Team' = IF q.player.soldTo \in DOMAIN Team
               THEN [Team EXCEPT ![q.player.soldTo] =
                       RefundedRecord(@, q.id, q.player.soldPrice)]
               ELSE Team
    /\ requests' = (requests \ {q}) \cup {[q EXCEPT !.stage = "delete"]}
    /\ last' = Step("delete_player", AuctionOf(q.id), <<>>, "none")
    /\ UNCHANGED <<impl, auctionRooms, Player, inflight, nextOp, round>>

\* Player.findByIdAndDelete has answered; the route emits data_update and responds.
DeletePlayerRemove(q) ==
    /\ q.route = "delete_player" /\ q.stage = "delete"
    /\ Player' = Without(Player, q.id)
    /\ requests' = Responded(q, "done")
    /\ last' = Step("delete_player", AuctionOf(q.id), <<DataUpdate(AuctionOf(q.id), 0)>>, "none")
    /\ UNCHANGED <<impl, auctionRooms, Team, inflight, nextOp, round>>

\* app.delete('/api/auctions/:id'): Auction.findByIdAndDelete has answered.
DeleteAuctionFind(a) ==
    /\ Cardinality(requests) < MaxRequests
    /\ requests' = requests \cup {Request("delete_auction", a, "teams", NewPlayer)}
    /\ last' = Step("delete_auction", a, <<>>, "none")
    /\ UNCHANGED <<impl, auctionRooms, Player, Team, inflight, nextOp, round>>

\* Team.deleteMany({auctionId}) has answered.
DeleteAuctionTeams(q) ==
    /\ q.route = "delete_auction" /\ q.stage = "teams"
    /\ Team' = [t \in {x \in DOMAIN Team : AuctionOf(x) # q.id} |-> Team[t]]
    /\ requests' = (requests \ {q}) \cup {[q EXCEPT !.stage = "players"]}
    /\ last' = Step("delete_auction", q.id, <<>>, "none")
    /\ UNCHANGED <<impl, auctionRooms, Player, inflight, nextOp, round>>

\* "Clean up memory": part_000 only.
EvictsRoom == impl = "part_000"
Evict(a) == [r \in DOMAIN auctionRooms \ {a} |-> auctionRooms[r]]

\* Player.deleteMany({auctionId}) has answered; the route responds.
DeleteAuctionPlayers(q) ==
    /\ q.route = "delete_auction" /\ q.stage = "players"
    /\ Player' = [p \in {x \in DOMAIN Player : AuctionOf(x) # q.id} |-> Player[p]]
    /\ auctionRooms' = IF EvictsRoom THEN Evict(q.id) ELSE auctionRooms
    /\ round' = IF EvictsRoom THEN [round EXCEPT ![q.id] = NewRound(FALSE)] ELSE round
    /\ requests' = Responded(q, "done")
    /\ last' = Step("delete_auction", q.id, <<>>, "none")
    /\ UNCHANGED <<impl, Team, inflight, nextOp>>

\* The call a deletion awaits is rejected by the store: part_000 and the
\* auction route answer 500 from their catch; the team and player routes of
\* server.js have no try/catch.
RouteCaught(q) == impl = "part_000" \/ q.route = "delete_auction"
RouteFails(q) ==
    /\ q.stage \notin {"done", "failed"}
    /\ requests' = Responded(q, "failed")
    /\ last' = Step(q.route, AuctionOf(q.id), <<>>,
                    IF RouteCaught(q) THEN "logged" ELSE "unhandled")
    /\ UNCHANGED <<impl, auctionRooms, Player, Team, inflight, nextOp, round>>

\* ------------------------------------------------------------ the machine
Init ==
    /\ impl \in Builds
    /\ auctionRooms = <<>>
    /\ Player = [p \in PlayerIds |-> NewPlayer]
    /\ Team = [t \in TeamIds |-> NewTeam]
    /\ inflight = {}
    /\ nextOp = 1
    /\ requests = {}
    /\ last = Step("listen", Null, <<>>, "none")
    /\ round = [r \in RoomIds |-> NewRound(FALSE)]

\* The socket handlers, for events drawn from the given sets.
Handlers(players, bases, teams, amounts, cap) ==
    \/ \E r \in AuctionIds : JoinAuction(r)
    \/ \E r \in AuctionIds, p \in players, b \in bases : StartPlayer(r, p, b)
    \/ \E r \in AuctionIds, t \in teams, a \in amounts : PlaceBid(r, t, a)
    \/ \E r \in AuctionIds : UndoBid(r)
    \/ \E r \in AuctionIds : TogglePause(r)
    \/ \E r \in AuctionIds : SellPlayer(r, cap)
    \/ \E r \in AuctionIds : UnsellPlayer(r, cap)
    \/ \E r \in AuctionIds : ResetRound(r)

\* The record store answers a write, or a handler resumes after its await.
StoreSteps ==
    \/ \E o \in inflight : PlayerWriteOk(o)
    \/ \E o \in inflight : PlayerWriteFails(o)
    \/ \E o \in inflight : TeamWriteOk(o)
    \/ \E o \in inflight : TeamWriteFails(o)

\* The bidding engine: every event the handlers can receive, malformed bids
\* included, while the record store has not answered yet.
NextEngine == Handlers(PlayerIds, Amounts, TeamInputs, AmountInputs, EngineOps)
SpecEngine == Init /\ [][NextEngine]_vars

\* The bidding engine for well-formed events only.
NextWellFormed == Handlers(PlayerIds, Amounts, TeamIds, Amounts, EngineOps)
SpecWellFormed == Init /\ [][NextWellFormed]_vars

\* The whole machine, settlements included, for well-formed events.
Next == Handlers(SettlePlayers, SettleBases, SettleTeams, SettleAmounts, MaxOps) \/ StoreSteps
Spec == Init /\ [][Next]_vars

\* The REST deletions.
Routes ==
    \/ \E id \in TeamIds : DeleteTeamFind(id)
    \/ \E q \in requests : DeleteTeamRemove(q)
    \/ \E q \in requests : DeleteTeamRelease(q)
    \/ \E id \in PlayerIds : DeletePlayerFind(id)
    \/ \E q \in requests : DeletePlayerRefund(q)
    \/ \E q \in requests : DeletePlayerRemove(q)
    \/ \E a \in AuctionIds : DeleteAuctionFind(a)
    \/ \E q \in requests : DeleteAuctionTeams(q)
    \/ \E q \in requests : DeleteAuctionPlayers(q)
    \/ \E q \in requests : RouteFails(q)

\* The sales that give the deletions something to undo, and their writes.
Sales ==
    \/ \E r \in AuctionIds : JoinAuction(r)
    \/ \E r \in AuctionIds, p \in PlayerIds, b \in SettleBases : StartPlayer(r, p, b)
    \/ \E r \in AuctionIds, t \in TeamIds, a \in SettleBases : PlaceBid(r, t, a)
    \/ \E r \in AuctionIds : SellPlayer(r, AdminOps)
    \/ \E o \in inflight : PlayerWriteOk(o)
    \/ \E o \in inflight : TeamWriteOk(o)

\* The REST deletions running against sales of the same auction.
NextAdmin == Sales \/ Routes
SpecAdmin == Init /\ [][NextAdmin]_vars

\* Two rooms side by side: every socket event on either room, and the store's
\* answers to their settlements.
NextRooms ==
    \/ \E r \in RoomIds : JoinAuction(r)
    \/ \E r \in RoomIds, p \in SettlePlayers, b \in SettleBases : StartPlayer(r, p, b)
    \/ \E r \in RoomIds, t \in SettleTeams, a \in SettleBases : PlaceBid(r, t, a)
    \/ \E r \in RoomIds : UndoBid(r)
    \/ \E r \in RoomIds : TogglePause(r)
    \/ \E r \in RoomIds : SellPlayer(r, RoomOps)
    \/ \E r \in RoomIds : UnsellPlayer(r, RoomOps)
    \/ \E r \in RoomIds : ResetRound(r)
    \/ StoreSteps
SpecRooms == Init /\ [][NextRooms]_vars

\* The whole machine for well-formed events, with a record store that answers
\* every write with success.
NextSettled ==
    \/ Handlers(SettlePlayers, SettleBases, SettleTeams, SettleAmounts, MaxOps)
    \/ \E o \in inflight : PlayerWriteOk(o)
    \/ \E o \in inflight : TeamWriteOk(o)
SpecSettled == Init /\ [][NextSettled]_vars

\* ====================================================================
\* Claims
\* ====================================================================
\* Numeric comparison as the claims mean it: only numbers compare.
Above(a, b) == IsNumber(a) /\ IsNumber(b) /\ a > b
NotBelow(a, b) == IsNumber(a) /\ IsNumber(b) /\ a >= b
AnyCap == {EngineOps, MaxOps, AdminOps, RoomOps}
Emitted(type) == {i \in DOMAIN last.emitted : last.emitted[i].type = type}

\* The acceptance rule of place_bid as the specification states it.
BidRule(s, a) ==
    \/ s.leadingTeamId = Null /\ NotBelow(a, s.currentBid)
    \/ s.leadingTeamId # Null /\ Above(a, s.currentBid)

\* C1: a well-formed place_bid(teamId, amount) is accepted iff there is no
\* leader and amount >= currentBid, or there is a leader and amount >
\* currentBid; on acceptance {bid: old currentBid, leader: old leadingTeamId}
\* becomes the last entry of bidHistory, currentBid = amount, leadingTeamId =
\* teamId and the other fields keep their values; otherwise the session is
\* unchanged.
C1_BidAcceptedIffRule ==
    [][\A r \in AuctionIds, t \in TeamIds, a \in Amounts :
         PlaceBid(r, t, a) =>
           LET s == Session(r)
           IN IF BidRule(s, a)
              THEN Session(r)' =
                     [s EXCEPT !.bidHistory = Append(@, [bid |-> s.currentBid,
                                                         leader |-> s.leadingTeamId]),
                               !.currentBid = a,
                               !.leadingTeamId = t]
              ELSE Session(r)' = s]_vars

\* C2: a rejected place_bid (malformed, or out of order) leaves the session
\* unchanged and emits nothing, in both builds.
C2_RejectedBidIsSilent ==
    [][\A r \in AuctionIds, t \in TeamInputs, a \in AmountInputs :
         (PlaceBid(r, t, a) /\ (Malformed(t, a) \/ ~BidRule(Session(r), a))) =>
           /\ Session(r)' = Session(r)
           /\ last'.emitted = <<>>]_vars

\* A step of room r in which place_bid(t, a) is accepted.
Accepts(r, t, a) == PlaceBid(r, t, a) /\ Session(r)' # Session(r)

C4_UndoReversesBid ==
    [][/\ \A r \in AuctionIds, t \in TeamInputs, a \in AmountInputs :
            Accepts(r, t, a) =>
              /\ Len(Session(r)'.bidHistory) > 0
              /\ PopBid(Session(r)') = Session(r)
       /\ \A r \in AuctionIds :
            UndoBid(r) =>
              /\ Session(r)'.status = Session(r).status
              /\ Session(r)'.currentPlayerId = Session(r).currentPlayerId
              /\ Len(Session(r).bidHistory) > 0 => Session(r)' = PopBid(Session(r))]_vars

\* undo_bid has just popped an entry a place_bid had pushed.
C4_Witness ==
    /\ last.event = "undo_bid"
    /\ last.emitted # <<>>
    /\ auctionRooms[last.room].leadingTeamId \in TeamIds

\* C5: undo_bid on an empty bidHistory changes nothing of the session and
\* emits nothing.
C5_UndoOnEmptyIsNoOp ==
    [][\A r \in AuctionIds :
         (UndoBid(r) /\ Session(r).bidHistory = <<>>) =>
           /\ Session(r)' = Session(r)
           /\ last'.emitted = <<>>
           /\ UNCHANGED <<Player, Team, inflight>>]_vars

\* undo_bid ran on an empty history of a started room.
C5_Witness ==
    /\ last.event = "undo_bid"
    /\ last.emitted = <<>>
    /\ auctionRooms[last.room].status # "IDLE"

\* C6: start_player(playerId, basePrice) from any session gives currentBid =
\* basePrice, no leader, currentPlayerId = playerId, status ACTIVE and an
\* empty bidHistory, and emits exactly one auction_state carrying that state
\* to the room.
C6_StartResetsRound ==
    [][\A r \in AuctionIds, p \in PlayerIds, b \in Amounts :
         StartPlayer(r, p, b) =>
           LET s2 == [currentBid |-> b, leadingTeamId |-> Null, currentPlayerId |-> p,
                      status |-> "ACTIVE", bidHistory |-> <<>>]
           IN /\ Session(r)' = s2
              /\ Len(last'.emitted) = 1
              /\ last'.emitted[1].type = "auction_state"
              /\ last'.emitted[1].scope = "room"
              /\ last'.emitted[1].to = r
              /\ last'.emitted[1].state = s2]_vars

\* start_player has just run.
C6_Witness ==
    /\ last.event = "start_player"
    /\ auctionRooms[last.room].status = "ACTIVE"
    /\ auctionRooms[last.room].bidHistory = <<>>

\* C7: reset_round leaves the session equal to a freshly created one, in both
\* builds.
C7_ResetGivesFreshSession ==
    [][\A r \in AuctionIds : ResetRound(r) => Session(r)' = FreshSession]_vars

\* C8: sell_player with no current player or no leader changes nothing of the
\* session, emits nothing and issues no durable write.
C8_SellWithoutLeaderIsNoOp ==
    [][\A r \in AuctionIds, cap \in AnyCap :
         (/\ SellPlayer(r, cap)
          /\ Session(r).currentPlayerId = Null \/ Session(r).leadingTeamId = Null) =>
           /\ Session(r)' = Session(r)
           /\ last'.emitted = <<>>
           /\ UNCHANGED <<Player, Team, inflight, nextOp>>]_vars

\* sell_player was ignored in a room that has a current player but no leader.
C8_Witness ==
    /\ last.event = "sell_player"
    /\ last.emitted = <<>>
    /\ auctionRooms[last.room].currentPlayerId # Null
    /\ auctionRooms[last.room].leadingTeamId = Null

\* The settlements issued by the step.
Issued == {o \in inflight' : \A q \in inflight : q.id # o.id}

\* C9: an accepted sell_player (currentPlayerId = P, leadingTeamId = T,
\* currentBid = A) sets status SOLD and empties bidHistory; when its player
\* write applies, P's record has isSold = true, isUnsold = false, soldTo = T,
\* soldPrice = A; when its team write applies, T's spent has grown by exactly
\* A and P has been added to T's players.
C9_SaleIsRecorded ==
    [][/\ \A r \in AuctionIds, cap \in AnyCap :
            (/\ SellPlayer(r, cap)
             /\ Session(r).currentPlayerId # Null
             /\ Session(r).leadingTeamId # Null) =>
              /\ Session(r)'.status = "SOLD"
              /\ Session(r)'.bidHistory = <<>>
              /\ \E o \in Issued :
                   /\ o.playerId = Session(r).currentPlayerId
                   /\ o.teamId = Session(r).leadingTeamId
                   /\ o.amount = Session(r).currentBid
       /\ \A o \in inflight :
            (o.event = "sell_player" /\ PlayerWriteOk(o)) =>
              Player'[o.playerId] = [isSold |-> TRUE, isUnsold |-> FALSE,
                                     soldTo |-> o.teamId, soldPrice |-> o.amount]
       /\ \A o \in inflight :
            (o.event = "sell_player" /\ TeamWriteOk(o)) =>
              /\ Team'[o.teamId].spent = Team[o.teamId].spent + o.amount
              /\ Team'[o.teamId].players = Append(Team[o.teamId].players, o.playerId)]_vars

\* C10: the step that issues a settlement emits that event's auction_state
\* (before anything else of the event), and a data_update is emitted only for
\* a settlement issued in an earlier step, in the step in which the last of
\* its writes succeeds, every other write of it having succeeded before.
C10_StateThenData ==
    [][/\ \A o \in Issued :
            \E i \in DOMAIN last'.emitted :
              /\ last'.emitted[i].type = "auction_state"
              /\ last'.emitted[i].op = o.id
              /\ last'.emitted[i].to = o.room
              /\ \A j \in 1..i : last'.emitted[j].type # "data_update"
       /\ \A i \in DOMAIN last'.emitted :
            last'.emitted[i].type = "data_update" =>
              \E o \in inflight :
                /\ o.id = last'.emitted[i].op
                /\ o.room = last'.emitted[i].to
                /\ IF o.event = "sell_player"
                   THEN \/ o.playerWrite = "ok" /\ o.teamWrite = "pending" /\ TeamWriteOk(o)
                        \/ o.teamWrite = "ok" /\ o.playerWrite = "pending" /\ PlayerWriteOk(o)
                   ELSE o.playerWrite = "pending" /\ PlayerWriteOk(o)]_vars

\* The data_update of a sale has just been emitted.
C10_Witness ==
    /\ last.event = "sell_player"
    /\ Emitted("data_update") # {}
    /\ \E p \in DOMAIN Player : Player[p].isSold
    /\ \E t \in DOMAIN Team : Team[t].spent > 0

\* C11: whenever every settlement write issued so far has been answered, no
\* player record has isSold and isUnsold both true.
C11_SoldAndUnsoldExclusive ==
    inflight = {} =>
      \A p \in DOMAIN Player : ~(Player[p].isSold /\ Player[p].isUnsold)

\* C12: in every session, leadingTeamId is null exactly when no place_bid has
\* been accepted in the room since the session was created or last restarted
\* by start_player or reset_round.
C12_LeaderIffBidAccepted ==
    \A r \in DOMAIN auctionRooms :
      (auctionRooms[r].leadingTeamId = Null) <=> ~round[r].accepted

\* The status edges the specification lists.
ListedEdges ==
    {<<"IDLE", "ACTIVE">>, <<"ACTIVE", "PAUSED">>, <<"PAUSED", "ACTIVE">>,
     <<"ACTIVE", "SOLD">>, <<"ACTIVE", "UNSOLD">>}
    \cup {<<a, "IDLE">> : a \in {"SOLD", "UNSOLD", "PAUSED", "ACTIVE"}}

C14_ToggleOnlyActivePaused ==
    [][\A r \in AuctionIds :
         TogglePause(r) =>
           LET s == Session(r)
           IN Session(r)' =
                IF s.status = "ACTIVE" THEN [s EXCEPT !.status = "PAUSED"]
                ELSE IF s.status = "PAUSED" THEN [s EXCEPT !.status = "ACTIVE"]
                ELSE s]_vars

\* C15: place_bid never changes status, and a place_bid that changes currentBid
\* or leadingTeamId does so in a session whose status is ACTIVE.
C15_BidsOnlyWhileActive ==
    [][\A r \in AuctionIds, t \in TeamIds, a \in Amounts :
         PlaceBid(r, t, a) =>
           /\ Session(r)'.status = Session(r).status
           /\ (\/ Session(r)'.currentBid # Session(r).currentBid
               \/ Session(r)'.leadingTeamId # Session(r).leadingTeamId)
                => Session(r).status = "ACTIVE"]_vars

\* C16: unsell_player with no current player changes nothing, emits nothing
\* and issues no write; otherwise it sets status UNSOLD and leaves the other
\* four fields, and issues one write for the player that is current at that
\* moment and none for a team; when that write applies the player has isSold =
\* false and isUnsold = true, and no other player and no team is changed.
C16_UnsellMarksPlayerOnly ==
    [][/\ \A r \in AuctionIds, cap \in AnyCap :
            UnsellPlayer(r, cap) =>
              LET s == Session(r)
              IN IF s.currentPlayerId = Null
                 THEN /\ Session(r)' = s
                      /\ last'.emitted = <<>>
                      /\ UNCHANGED <<Player, Team, inflight, nextOp>>
                 ELSE /\ Session(r)' = [s EXCEPT !.status = "UNSOLD"]
                      /\ UNCHANGED <<Player, Team>>
                      /\ Len(last'.emitted) = 1
                      /\ last'.emitted[1].type = "auction_state"
                      /\ Cardinality(Issued) = 1
                      /\ \A o \in Issued :
                           /\ o.event = "unsell_player"
                           /\ o.playerId = s.currentPlayerId
                           /\ o.teamWrite = "none"
       /\ \A o \in inflight :
            (o.event = "unsell_player" /\ PlayerWriteOk(o)) =>
              /\ Team' = Team
              /\ DOMAIN Player' = DOMAIN Player
              /\ \A p \in DOMAIN Player :
                   Player'[p] = IF p = o.playerId
                                THEN [Player[p] EXCEPT !.isSold = FALSE, !.isUnsold = TRUE]
                                ELSE Player[p]
       /\ \A o \in inflight :
            o.event = "unsell_player" => ~TeamWriteOk(o) /\ ~TeamWriteFails(o)]_vars

\* The write of an unsell_player has applied to a player that was sold before,
\* and the room still names that player and its leader.
C16_Witness ==
    /\ last.event = "unsell_player"
    /\ Emitted("data_update") # {}
    /\ auctionRooms[last.room].status = "UNSOLD"
    /\ auctionRooms[last.room].leadingTeamId \in TeamIds
    /\ \E p \in DOMAIN Player :
         /\ p = auctionRooms[last.room].currentPlayerId
         /\ Player[p].isUnsold /\ ~Player[p].isSold
         /\ Player[p].soldTo \in TeamIds

\* C17: when a write of a settlement fails, the handler absorbs the failure
\* (it is caught, never left as an unhandled rejection), the room table is
\* as it was (no rollback), no data_update is emitted then or later for that
\* settlement, and no write is issued again.
C17_WriteFailureAbsorbed ==
    [][/\ \A o \in inflight :
            (PlayerWriteFails(o) \/ TeamWriteFails(o)) =>
              /\ auctionRooms' = auctionRooms
              /\ UNCHANGED <<Player, Team, nextOp>>
              /\ \A i \in DOMAIN last'.emitted : last'.emitted[i].type # "data_update"
              /\ \A q \in inflight' : \E q0 \in inflight :
                   /\ q0.id = q.id
                   /\ q.playerWrite = "pending" => q0.playerWrite = "pending"
                   /\ q.teamWrite = "pending" => q0.teamWrite = "pending"
              /\ last'.error # "unhandled"
       /\ \A i \in DOMAIN last'.emitted :
            last'.emitted[i].type = "data_update" =>
              \A o \in inflight : o.id = last'.emitted[i].op => ~AnyFailed(o)]_vars

\* C18: deleting a team removes the team record and nothing else, and then
\* resets every player whose soldTo is that team to isSold = false, soldTo =
\* null, soldPrice = 0; no player record is deleted and every other player and
\* every other team is unchanged.
C18_DeleteTeamReleasesPlayers ==
    [][\A q \in requests :
         /\ DeleteTeamRemove(q) =>
              /\ DOMAIN Team' = DOMAIN Team \ {q.id}
              /\ \A x \in DOMAIN Team' : Team'[x] = Team[x]
              /\ Player' = Player
         /\ DeleteTeamRelease(q) =>
              /\ q.id \notin DOMAIN Team'
              /\ Team' = Team
              /\ DOMAIN Player' = DOMAIN Player
              /\ \A p \in DOMAIN Player :
                   Player'[p] = IF Player[p].soldTo = q.id
                                THEN [Player[p] EXCEPT !.isSold = FALSE, !.soldTo = Null,
                                                       !.soldPrice = 0]
                                ELSE Player[p]]_vars

\* The team a completed sale went to has been deleted and the sold player is
\* pending again.
C18_Witness ==
    /\ last.event = "delete_team"
    /\ Emitted("data_update") # {}
    /\ inflight = {} /\ nextOp > 1
    /\ \E r \in DOMAIN auctionRooms :
         LET s == auctionRooms[r]
         IN /\ s.status = "SOLD"
            /\ s.leadingTeamId \in TeamIds \ DOMAIN Team
            /\ s.currentPlayerId \in DOMAIN Player
            /\ Player[s.currentPlayerId] = NewPlayer

\* C19: deleting a player whose document says isSold with a soldTo first takes
\* that document's soldPrice off the owning team's spent and the player out of
\* its players, leaving every other record, and deletes the player record in a
\* later step; deleting a player that is not sold changes no team record.
C19_DeletePlayerRefunds ==
    [][/\ \A p \in PlayerIds :
            DeletePlayerFind(p) =>
              /\ UNCHANGED <<Player, Team>>
              /\ \A q \in requests' \ requests :
                   q.stage = IF q.player.isSold /\ q.player.soldTo # Null
                             THEN "refund" ELSE "delete"
       /\ \A q \in requests :
            /\ DeletePlayerRefund(q) =>
                 /\ q.player.isSold
                 /\ Player' = Player
                 /\ DOMAIN Team' = DOMAIN Team
                 /\ \A x \in DOMAIN Team :
                      IF x = q.player.soldTo
                      THEN /\ Team'[x].spent = Team[x].spent - q.player.soldPrice
                           /\ \A i \in DOMAIN Team'[x].players : Team'[x].players[i] # q.id
                           /\ Team'[x].players = SelectSeq(Team[x].players, LAMBDA y : y # q.id)
                      ELSE Team'[x] = Team[x]
            /\ DeletePlayerRemove(q) =>
                 /\ q.stage # "refund"
                 /\ Team' = Team
                 /\ DOMAIN Player' = DOMAIN Player \ {q.id}
                 /\ \A x \in DOMAIN Player' : Player'[x] = Player[x]]_vars

\* A sold player has been deleted and its team has its money back.
C19_Witness ==
    /\ last.event = "delete_player"
    /\ Emitted("data_update") # {}
    /\ inflight = {} /\ nextOp > 1
    /\ \E r \in DOMAIN auctionRooms :
         LET s == auctionRooms[r]
         IN /\ s.status = "SOLD"
            /\ s.currentPlayerId \in PlayerIds \ DOMAIN Player
            /\ s.leadingTeamId \in DOMAIN Team
            /\ Team[s.leadingTeamId] = NewTeam

\* C20: a room stays in the room table until its auction is deleted, and the
\* deletion of an auction evicts its room, so that the next getRoomState for
\* that id gives a fresh session.
C20_DeleteAuctionEvictsRoom ==
    [][/\ \A q \in requests :
            DeleteAuctionPlayers(q) => Session(q.id)' = FreshSession
       /\ (\A q \in requests : ~DeleteAuctionPlayers(q)) =>
            DOMAIN auctionRooms \subseteq DOMAIN auctionRooms']_vars

\* C21: a step taken for room a (the handling of an event carrying auction
\* id a, or the continuation of a settlement of room a after its await) leaves
\* every other room of the table as it is and creates none, and everything it
\* emits is addressed to a.
C21_RoomsIndependent ==
    [][LET a == last'.room
       IN /\ a \in RoomIds
          /\ \A b \in RoomIds \ {a} :
               /\ b \in DOMAIN auctionRooms' <=> b \in DOMAIN auctionRooms
               /\ b \in DOMAIN auctionRooms => auctionRooms'[b] = auctionRooms[b]
          /\ \A i \in DOMAIN last'.emitted : last'.emitted[i].to = a]_vars

\* A sale of one room has just completed while the other room holds a round of
\* its own.
C21_Witness ==
    /\ last.event = "sell_player"
    /\ Emitted("data_update") # {}
    /\ DOMAIN auctionRooms = RoomIds
    /\ auctionRooms[last.room].status = "SOLD"
    /\ \E b \in RoomIds \ {last.room} :
         /\ auctionRooms[b].status = "ACTIVE"
         /\ auctionRooms[b].leadingTeamId \in TeamIds

\* The players the store says are sold to team t, and what they cost.
SoldTo(t) == {p \in DOMAIN Player : Player[p].isSold /\ Player[p].soldTo = t}
RECURSIVE SumOfPrices(_)
SumOfPrices(ps) ==
    IF ps = {} THEN 0
    ELSE LET p == CHOOSE x \in ps : TRUE
         IN Player[p].soldPrice + SumOfPrices(ps \ {p})
Owned(t) == {Team[t].players[i] : i \in DOMAIN Team[t].players}
NothingPending ==
    /\ inflight = {}
    /\ \A q \in requests : q.stage \in {"done", "failed"}

\* C22: whenever no settlement write and no deletion is pending, every team's
\* spent is the sum of soldPrice over the players sold to it, and its players
\* list holds exactly those players, each once.
C22_TeamAccountsBalance ==
    NothingPending =>
      \A t \in DOMAIN Team :
        /\ Team[t].spent = SumOfPrices(SoldTo(t))
        /\ Owned(t) = SoldTo(t)
        /\ Len(Team[t].players) = Cardinality(Owned(t))

\* C23: a sell_player handled while the status is already SOLD (the round has
\* been settled and neither start_player nor reset_round came since) issues
\* no write.
C23_OneSettlementPerRound ==
    [][\A r \in AuctionIds, cap \in AnyCap :
         (SellPlayer(r, cap) /\ Session(r).status = "SOLD") =>
           /\ Issued = {}
           /\ UNCHANGED <<Player, Team>>]_vars

\* C24: a settlement carries the player, the team and the amount its session
\* held in the step that accepted the event; it keeps them while it is in
\* flight, whatever the room does meanwhile; and each of its writes changes
\* the record of that player or that team only, with those values.
C24_WritesUseAcceptedValues ==
    [][/\ \A r \in AuctionIds, cap \in AnyCap, o \in Issued :
            (SellPlayer(r, cap) \/ UnsellPlayer(r, cap)) =>
              /\ o.room = r
              /\ o.playerId = Session(r).currentPlayerId
              /\ o.event = "sell_player" =>
                   /\ o.teamId = Session(r).leadingTeamId
                   /\ o.amount = Session(r).currentBid
       /\ \A o \in inflight, o2 \in inflight' :
            o2.id = o.id =>
              /\ o2.playerId = o.playerId /\ o2.teamId = o.teamId
              /\ o2.amount = o.amount /\ o2.room = o.room /\ o2.event = o.event
       /\ \A o \in inflight :
            PlayerWriteOk(o) =>
              /\ \A p \in DOMAIN Player \ {o.playerId} : Player'[p] = Player[p]
              /\ (o.event = "sell_player" /\ o.playerId \in DOMAIN Player) =>
                   /\ Player'[o.playerId].isSold
                   /\ Player'[o.playerId].soldTo = o.teamId
                   /\ Player'[o.playerId].soldPrice = o.amount
              /\ (o.event = "unsell_player" /\ o.playerId \in DOMAIN Player) =>
                   /\ ~Player'[o.playerId].isSold
                   /\ Player'[o.playerId].isUnsold
       /\ \A o \in inflight :
            TeamWriteOk(o) =>
              /\ \A x \in DOMAIN Team \ {o.teamId} : Team'[x] = Team[x]
              /\ o.teamId \in DOMAIN Team =>
                   /\ Team'[o.teamId].spent = Team[o.teamId].spent + o.amount
                   /\ Team'[o.teamId].players = Append(Team[o.teamId].players, o.playerId)]_vars

\* The writes of a sale have applied with the accepted player, team and price
\* after the room had been reset.
C24_Witness ==
    /\ last.event = "sell_player"
    /\ Emitted("data_update") # {}
    /\ auctionRooms[last.room].currentPlayerId = Null
    /\ auctionRooms[last.room].leadingTeamId = Null
    /\ \E p \in DOMAIN Player, x \in DOMAIN Team :
         /\ Player[p].isSold /\ Player[p].soldTo = x /\ Player[p].soldPrice > 0
         /\ Team[x].spent = Player[p].soldPrice
         /\ Team[x].players = <<p>>

\* C25: whenever no settlement write and no deletion is pending (and no
\* deletion has failed), every player record that is sold names in soldTo a
\* team record that exists.
C25_SoldToExistingTeam ==
    (NothingPending /\ \A q \in requests : q.stage = "done") =>
      \A p \in DOMAIN Player : Player[p].isSold => Player[p].soldTo \in DOMAIN Team

\* C26: for well-formed events, a session whose status is SOLD has a current
\* player and a leading team.
C26_SoldHasPlayerAndLeader ==
    \A r \in DOMAIN auctionRooms :
      auctionRooms[r].status = "SOLD" =>
        /\ auctionRooms[r].currentPlayerId # Null
        /\ auctionRooms[r].leadingTeamId # Null

\* A bid placed on a sold round has just been undone.
C26_Witness ==
    /\ last.event = "undo_bid"
    /\ last.emitted # <<>>
    /\ auctionRooms[last.room].status = "SOLD"
    /\ auctionRooms[last.room].leadingTeamId \in TeamIds
    /\ auctionRooms[last.room].currentPlayerId \in PlayerIds

====
